---- MODULE Spec2Model ----
(***************************************************************************)
(* esp::geo::VoxelGrid: a named collection of typed voxel grids over one   *)
(* fixed lattice, with the generators that derive the interior/exterior    *)
(* labelling, the Manhattan and Euclidean signed distance fields and the   *)
(* distance flow field from the "Boundary" grid.                           *)
(*                                                                         *)
(* Representation.  A grid buffer is a function from the linear index      *)
(* 0..gridSize-1 to a cell value.  bool cells are BOOLEAN, int cells are   *)
(* 32-bit integers, Vector3 cells are triples <<x, y, z>> (every Vector3   *)
(* the generators store has integral components, which float represents    *)
(* exactly), and a float cell is the pair <<s, q>> standing for            *)
(* s * sqrt(q): s in {-1, 0, 1} and q the squared length, the only floats  *)
(* the Euclidean generator stores.  sqrt is strictly monotone on the small *)
(* integers involved, so comparing lengths is comparing squared lengths.   *)
(*                                                                         *)
(* assert() and the Corrade view assertions are taken as enabled: a failed *)
(* one aborts the process (alive = FALSE) with the table as it was at that *)
(* point.                                                                  *)
(***************************************************************************)
EXTENDS Integers, Sequences, FiniteSets, TLC

VARIABLES
    dims,     \* m_voxelGridDimensions, <<dimX, dimY, dimZ>>
    grids,    \* grids_: name -> [kind, data]
    alive,    \* FALSE once an assertion has aborted the process
    ncalls,   \* number of API calls made so far
    last      \* the call that has just returned (or aborted), with its result

vars == <<dims, grids, alive, ncalls, last>>

\* ---------------------------------------------------------------- bounds
MaxDim == 4        \* largest extent of an axis
MaxCells == 6      \* lattices up to this size are seeded with every fill
MaxCalls == 4      \* API calls per run of the client program
MaxFilters == 3    \* API calls per run of the range-filter program
MaxStoreCalls == 2 \* API calls per run of the grid-store program

\* ------------------------------------------------------------- constants
INT_MAX == 2147483647
INT_MIN == -INT_MAX - 1

Axis == 1..3
AllDims == {d \in (1..MaxDim) \X (1..MaxDim) \X (1..MaxDim) : TRUE}

Min2(a, b) == IF a <= b THEN a ELSE b
Max2(a, b) == IF a >= b THEN a ELSE b
AbsInt(a) == IF a < 0 THEN -a ELSE a

\* ------------------------------------------------------------ IndexCodec
gridSize == dims[1] * dims[2] * dims[3]

isValidIndex(coords) ==
    /\ coords[1] >= 0 /\ coords[2] >= 0 /\ coords[3] >= 0
    /\ coords[1] < dims[1]
    /\ coords[2] < dims[2]
    /\ coords[3] < dims[3]

\* every coordinate of the lattice
Coords == (0..(dims[1] - 1)) \X (0..(dims[2] - 1)) \X (0..(dims[3] - 1))

\* hashVoxelIndex with the strides taken from dimX and dimY
hashVoxelIndex_StridesXY(coords) ==
    coords[3] + coords[2] * dims[1] + coords[1] * dims[1] * dims[2]

hashVoxelIndex(coords) ==
    coords[3] + coords[2] * dims[3] + coords[1] * dims[3] * dims[2]

\* the body of reverseHash: the three components in the order the
\* constructor call lists them
reverseHash(hash) ==
    << hash % dims[3],
       (hash \div dims[3]) % dims[2],
       (hash \div dims[3]) \div dims[2] >>

\* ---------------------------------------------------------- TypedGridStore
\* offset of view[i][j][k] in a buffer viewed with sizes {dimX, dimY, dimZ}
ViewOffset(index) ==
    (index[1] * dims[2] + index[2]) * dims[3] + index[3]

\* the n-th coordinate (n = 1..gridSize) visited by the loop nest
\* for i, for j, for k; view[i][j][k] of it is element n - 1 of the buffer
LoopNest(n) ==
    << (n - 1) \div (dims[2] * dims[3]),
       ((n - 1) \div dims[3]) % dims[2],
       (n - 1) % dims[3] >>

\* Corrade ValueInit: every element of the new buffer is T{}
ZeroOf(type) ==
    CASE type = "bool" -> FALSE
      [] type = "int" -> 0
      [] type = "float" -> <<0, 0>>
      [] type = "vector3" -> <<0, 0, 0>>

\* addGrid that leaves an entry that is already there as it is
addGrid_InsertOnly(G, type, gridName) ==
    IF gridName \in DOMAIN G THEN G
    ELSE [n \in (DOMAIN G) \cup {gridName} |->
             IF n = gridName
             THEN [kind |-> type,
                   data |-> [h \in 0..(gridSize - 1) |-> ZeroOf(type)]]
             ELSE G[n]]

\* addGrid that sizes the buffer gridSize() bytes, without sizeof(T)
addGrid_NoSizeof(G, type, gridName) ==
    [n \in (DOMAIN G) \cup {gridName} |->
        IF n = gridName
        THEN [kind |-> type,
              data |-> [h \in 0..((IF type = "bool" THEN gridSize
                                   ELSE gridSize \div 4) - 1) |->
                           ZeroOf(type)]]
        ELSE G[n]]

addGrid(G, type, gridName) ==
    [n \in (DOMAIN G) \cup {gridName} |->
        IF n = gridName
        THEN [kind |-> type, data |-> [h \in 0..(gridSize - 1) |-> ZeroOf(type)]]
        ELSE G[n]]

\* removeGrid that erases nothing
removeGrid_Keep(G, gridName) ==
    G

removeGrid(G, gridName) ==
    [n \in (DOMAIN G) \ {gridName} |-> G[n]]

getVoxel(G, index, gridName) ==
    G[gridName].data[ViewOffset(index)]

setVoxel(G, index, gridName, value) ==
    [G EXCEPT ![gridName].data[ViewOffset(index)] = value]

HasGrid(G, gridName, type) ==
    gridName \in DOMAIN G /\ G[gridName].kind = type

\* ------------------------------------------------------ ClassificationEngine
ShadowNames ==
    <<"negXShadow", "posXShadow", "negYShadow", "posYShadow",
      "negZShadow", "posZShadow">>

\* indices visited by `ind = n - 1; while (ind--) { ... }`, in order
NegScanOrder(n) == [t \in 1..(n - 1) |-> n - 1 - t]

\* indices visited by `ind = -1; while (++ind < n) { ... }`, in order
PosScanOrder(n) == [t \in 1..n |-> t - 1]

WithAxis(base, axis, ind) == [base EXCEPT ![axis] = ind]

\* one ray of one scan: the body of the while loop over the visited indices,
\* from position t of order on with the flag hit; the indices it marks
RECURSIVE ScanRay(_, _, _, _, _, _)
ScanRay(G, axis, base, order, t, hit) ==
    IF t > Len(order) THEN {}
    ELSE IF hit
    THEN {order[t]} \cup ScanRay(G, axis, base, order, t + 1, TRUE)
    ELSE IF getVoxel(G, WithAxis(base, axis, order[t]), "Boundary")
    THEN {order[t]} \cup ScanRay(G, axis, base, order, t + 1, TRUE)
    ELSE ScanRay(G, axis, base, order, t + 1, FALSE)

\* the order in which scan s (1..6, as in ShadowNames) visits a ray of axis
ScanOrder(s, axis) ==
    IF s % 2 = 1 THEN NegScanOrder(dims[axis]) ELSE PosScanOrder(dims[axis])

\* scan s over all its rays.  A ray writes only its own cells of the shadow
\* grid and reads only "Boundary", so the grid is the rays' marks side by side
Scanned(G, s) ==
    LET axis == (s + 1) \div 2
    IN  [G EXCEPT ![ShadowNames[s]].data =
            [h \in 0..(gridSize - 1) |->
                LoopNest(h + 1)[axis] \in
                    ScanRay(G, axis, LoopNest(h + 1), ScanOrder(s, axis),
                            1, FALSE)]]

RECURSIVE ScanAll(_, _)
ScanAll(G, s) ==
    IF s > Len(ShadowNames) THEN G
    ELSE ScanAll(Scanned(G, s), s + 1)

\* the label of a non-boundary cell from the six shadow flags
\* Vote with the two labels exchanged
Vote_Exchanged(nX, pX, nY, pY, nZ, pZ) ==
    IF \/ (nX /\ pX) \/ (nY /\ pY) \/ (nZ /\ pZ)
       \/ ((nX \/ pX) /\ (nY \/ pY) /\ (nZ \/ pZ))
    THEN INT_MIN
    ELSE INT_MAX

Vote(nX, pX, nY, pY, nZ, pZ) ==
    IF \/ (nX /\ pX) \/ (nY /\ pY) \/ (nZ /\ pZ)
       \/ ((nX \/ pX) /\ (nY \/ pY) /\ (nZ \/ pZ))
    THEN INT_MAX
    ELSE INT_MIN

\* VoteCell without the test for a boundary cell
VoteCell_BoundaryVoted(G, index) ==
    Vote(~getVoxel(G, index, "negXShadow"),
         ~getVoxel(G, index, "posXShadow"),
         ~getVoxel(G, index, "negYShadow"),
         ~getVoxel(G, index, "posYShadow"),
         ~getVoxel(G, index, "negZShadow"),
         ~getVoxel(G, index, "posZShadow"))

VoteCell(G, index) ==
    IF getVoxel(G, index, "Boundary")
    THEN 0
    ELSE Vote(~getVoxel(G, index, "negXShadow"),
              ~getVoxel(G, index, "posXShadow"),
              ~getVoxel(G, index, "negYShadow"),
              ~getVoxel(G, index, "posYShadow"),
              ~getVoxel(G, index, "negZShadow"),
              ~getVoxel(G, index, "posZShadow"))

\* the voting loop: every cell of "InteriorExterior" written once, from
\* "Boundary" and the six shadow grids
Voted(G) ==
    [G EXCEPT !["InteriorExterior"].data =
        [h \in 0..(gridSize - 1) |-> VoteCell(G, LoopNest(h + 1))]]

RECURSIVE AddShadows(_, _)
AddShadows(G, s) ==
    IF s > Len(ShadowNames) THEN G
    ELSE AddShadows(addGrid(G, "bool", ShadowNames[s]), s + 1)

\* RemoveShadows that leaves the shadow grids in the table
RemoveShadows_Kept(G, s) ==
    G

RECURSIVE RemoveShadows(_, _)
RemoveShadows(G, s) ==
    IF s > Len(ShadowNames) THEN G
    ELSE RemoveShadows(removeGrid(G, ShadowNames[s]), s + 1)

\* the table after generateInteriorExteriorVoxelGrid() has run on table G
InteriorExteriorOf(G) ==
    LET scanned == ScanAll(AddShadows(G, 1), 1)
        voted == Voted(addGrid(scanned, "int", "InteriorExterior"))
    IN  RemoveShadows(voted, 1)

\* ------------------------------------------------------ DistanceFieldEngine
\* int arithmetic is 32-bit two's complement: c + 1 and abs(v) as the
\* hardware computes them
Inc32(c) == IF c = INT_MAX THEN INT_MIN ELSE c + 1
Abs32(v) == IF v = INT_MIN THEN INT_MIN ELSE AbsInt(v)

Sign(v) == IF v > 0 THEN 1 ELSE IF v < 0 THEN -1 ELSE 0

Step(index, axis, delta) == [index EXCEPT ![axis] = index[axis] + delta]

\* abs(std::max(sdfGrid[neighbour], -2147483646)) for the neighbour of index
\* one cell away along axis, INT_MAX when that neighbour is off the lattice
NeighbourMagnitude(D, index, axis, delta) ==
    IF isValidIndex(Step(index, axis, delta))
    THEN Abs32(Max2(D[ViewOffset(Step(index, axis, delta))], -2147483646))
    ELSE INT_MAX

\* ClosestOf with the k neighbour left out of the comparison
ClosestOf_WithoutK(i, j, k) ==
    IF i <= j THEN i ELSE j

\* the if / else-if / else chain that picks the smallest of the three
ClosestOf(i, j, k) ==
    IF i <= j /\ i <= k THEN i
    ELSE IF j <= i /\ j <= k THEN j
    ELSE k

\* Lowered without the decrement
Lowered_Kept(closest) == closest

\* if (closest == INT_MAX) closest--;
Lowered(closest) == IF closest = INT_MAX THEN closest - 1 ELSE closest

\* Resigned without the sign of curVal
Resigned_Magnitude(curVal, closest) ==
    LET c == IF closest = INT_MAX THEN closest - 1 ELSE closest
    IN  Min2(Abs32(Max2(curVal, -2147483647)), Inc32(c))

\* Resigned without the step from the neighbour to the cell
Resigned_NoStep(curVal, closest) ==
    Sign(curVal) * Min2(Abs32(Max2(curVal, -2147483647)), closest)

\* curVal = sign(curVal) * min(|max(curVal, -2147483647)|, closest + 1),
\* with closest lowered by one first when it is INT_MAX
Resigned(curVal, closest) ==
    Sign(curVal) * Min2(Abs32(Max2(curVal, -2147483647)),
                        Inc32(Lowered(closest)))

ManhattanCell(D, index, delta) ==
    Resigned(D[ViewOffset(index)],
             ClosestOf(NeighbourMagnitude(D, index, 1, delta),
                       NeighbourMagnitude(D, index, 2, delta),
                       NeighbourMagnitude(D, index, 3, delta)))

\* the loop nest runs slice by slice: the two inner loops (for j, for k)
\* visit the dimY * dimZ cells of one value of i
SliceSize == dims[2] * dims[3]

\* 1st sweep, the inner loops over slice i: ascending from the n-th cell of
\* the loop nest to the last of the slice, every cell rewritten (a store of
\* the value the cell already holds leaves the buffer as it is)
RECURSIVE ManhattanForwardSlice(_, _, _)
ManhattanForwardSlice(D, i, n) ==
    IF n > (i + 1) * SliceSize THEN D
    ELSE LET curVal == ManhattanCell(D, LoopNest(n), -1)
         IN  IF curVal = D[n - 1]
             THEN ManhattanForwardSlice(D, i, n + 1)
             ELSE ManhattanForwardSlice([D EXCEPT ![n - 1] = curVal],
                                        i, n + 1)

\* 1st sweep, the outer loop: slices i, i + 1, ..., dimX - 1
RECURSIVE ManhattanForward(_, _)
ManhattanForward(D, i) ==
    IF i >= dims[1] THEN D
    ELSE ManhattanForward(ManhattanForwardSlice(D, i, i * SliceSize + 1),
                          i + 1)

\* second sweep, the inner loops over slice i: descending from the n-th cell
\* of the loop nest to the first of the slice, cells holding 0 skipped
RECURSIVE ManhattanBackwardSlice(_, _, _)
ManhattanBackwardSlice(D, i, n) ==
    IF n < i * SliceSize + 1 THEN D
    ELSE IF D[n - 1] = 0
    THEN ManhattanBackwardSlice(D, i, n - 1)
    ELSE ManhattanBackwardSlice(
             [D EXCEPT ![n - 1] = ManhattanCell(D, LoopNest(n), 1)],
             i, n - 1)

\* second sweep, the outer loop: slices i, i - 1, ..., 0
RECURSIVE ManhattanBackward(_, _)
ManhattanBackward(D, i) ==
    IF i < 0 THEN D
    ELSE ManhattanBackward(
             ManhattanBackwardSlice(D, i, (i + 1) * SliceSize), i - 1)

\* generateManhattanDistanceSDF lines 409-498, on a table that holds an int
\* grid "InteriorExterior": addGrid, copy, the two sweeps
ManhattanOf(G, gridName) ==
    LET added == addGrid(G, "int", gridName)
        copied == [added EXCEPT ![gridName].data =
                       added["InteriorExterior"].data]
    IN  [copied EXCEPT ![gridName].data =
            ManhattanBackward(ManhattanForward(copied[gridName].data, 0),
                              dims[1] - 1)]

\* Vector3(m_voxelGridDimensions) * 2
FarAway == <<2 * dims[1], 2 * dims[2], 2 * dims[3]>>

\* squared length of a - b
SqDist(a, b) ==
    (a[1] - b[1]) * (a[1] - b[1]) + (a[2] - b[2]) * (a[2] - b[2])
        + (a[3] - b[3]) * (a[3] - b[3])

\* closest cell recorded at the neighbour of index, FarAway off the lattice
NeighbourClosest(C, index, axis, delta) ==
    IF isValidIndex(Step(index, axis, delta))
    THEN C[ViewOffset(Step(index, axis, delta))]
    ELSE FarAway

\* ChooseClosest with the k neighbour never chosen
ChooseClosest_WithoutK(cur, i, j, k, index) ==
    LET cur_dist == SqDist(cur, index)
        i_dist == SqDist(i, index)
        j_dist == SqDist(j, index)
    IN  IF i_dist <= j_dist /\ i_dist <= cur_dist THEN i
        ELSE IF j_dist <= i_dist /\ j_dist <= cur_dist THEN j
        ELSE cur

\* the if / else-if chain of a sweep: the candidate that replaces the
\* recorded closest cell of index, or the recorded one when no branch fires
ChooseClosest(cur, i, j, k, index) ==
    LET cur_dist == SqDist(cur, index)
        i_dist == SqDist(i, index)
        j_dist == SqDist(j, index)
        k_dist == SqDist(k, index)
    IN  IF i_dist <= j_dist /\ i_dist <= k_dist /\ i_dist <= cur_dist THEN i
        ELSE IF j_dist <= i_dist /\ j_dist <= k_dist /\ j_dist <= cur_dist THEN j
        ELSE IF k_dist <= i_dist /\ k_dist <= j_dist /\ k_dist <= cur_dist THEN k
        ELSE cur

EuclideanCell(C, index, delta) ==
    ChooseClosest(C[ViewOffset(index)],
                  NeighbourClosest(C, index, 1, delta),
                  NeighbourClosest(C, index, 2, delta),
                  NeighbourClosest(C, index, 3, delta),
                  index)

\* InitialClosest without the cells that point to themselves
InitialClosest_Far(label, index) == FarAway

\* the initial closest cell of a cell from its label
InitialClosest(label, index) ==
    IF label = 0 THEN index ELSE FarAway

\* 1st sweep, the inner loops over slice i (no branch of the chain firing,
\* or one storing the cell already recorded, leaves the buffer as it is)
RECURSIVE EuclideanForwardSlice(_, _, _)
EuclideanForwardSlice(C, i, n) ==
    IF n > (i + 1) * SliceSize THEN C
    ELSE LET chosen == EuclideanCell(C, LoopNest(n), -1)
         IN  IF chosen = C[n - 1]
             THEN EuclideanForwardSlice(C, i, n + 1)
             ELSE EuclideanForwardSlice([C EXCEPT ![n - 1] = chosen],
                                        i, n + 1)

\* 1st sweep, the outer loop: slices i, i + 1, ..., dimX - 1
RECURSIVE EuclideanForward(_, _)
EuclideanForward(C, i) ==
    IF i >= dims[1] THEN C
    ELSE EuclideanForward(EuclideanForwardSlice(C, i, i * SliceSize + 1),
                          i + 1)

\* SignedLength without intOrExtSign
SignedLength_Positive(intOrExtVal, sq) ==
    IF Sign(intOrExtVal) = 0 \/ sq = 0 THEN <<0, 0>>
    ELSE <<1, sq>>

\* the float intOrExtSign * dist, dist the length of a vector of squared
\* length sq
SignedLength(intOrExtVal, sq) ==
    IF Sign(intOrExtVal) = 0 \/ sq = 0 THEN <<0, 0>>
    ELSE <<Sign(intOrExtVal), sq>>

\* second sweep, the inner loops over slice i, on the pair
\* R = [closest, sdf]: the cell's closest cell is settled and its signed
\* distance written
RECURSIVE EuclideanBackwardSlice(_, _, _, _)
EuclideanBackwardSlice(R, label, i, n) ==
    IF n < i * SliceSize + 1 THEN R
    ELSE LET index == LoopNest(n)
             chosen == EuclideanCell(R.closest, index, 1)
             dist == SignedLength(label[n - 1], SqDist(chosen, index))
         IN  IF chosen = R.closest[n - 1] /\ dist = R.sdf[n - 1]
             THEN EuclideanBackwardSlice(R, label, i, n - 1)
             ELSE EuclideanBackwardSlice(
                      [closest |-> [R.closest EXCEPT ![n - 1] = chosen],
                       sdf |-> [R.sdf EXCEPT ![n - 1] = dist]],
                      label, i, n - 1)

\* second sweep, the outer loop: slices i, i - 1, ..., 0
RECURSIVE EuclideanBackward(_, _, _)
EuclideanBackward(R, label, i) ==
    IF i < 0 THEN R
    ELSE EuclideanBackward(
             EuclideanBackwardSlice(R, label, i, (i + 1) * SliceSize),
             label, i - 1)

\* generateEuclideanDistanceSDF lines 507-613, on a table that holds an int
\* grid "InteriorExterior", for gridName other than "InteriorExterior" and
\* "ClosestBoundaryCell" (the views taken at lines 508-509 stay valid)
EuclideanOf(G, gridName) ==
    LET label == G["InteriorExterior"].data
        init == [h \in 0..(gridSize - 1) |->
                    InitialClosest(label[h], LoopNest(h + 1))]
        swept == EuclideanForward(init, 0)
        added == addGrid(addGrid(G, "vector3", "ClosestBoundaryCell"),
                         "float", gridName)
        final == EuclideanBackward(
                     [closest |-> swept, sdf |-> added[gridName].data],
                     label, dims[1] - 1)
    IN  [added EXCEPT !["ClosestBoundaryCell"].data = final.closest,
                      ![gridName].data = final.sdf]

\* ---------------------------------------------------------- FlowFieldBuilder
\* Minus with the operands exchanged
Minus_Exchanged(a, b) == <<b[1] - a[1], b[2] - a[2], b[3] - a[3]>>

Minus(a, b) == <<a[1] - b[1], a[2] - b[2], a[3] - b[3]>>

\* the loop of generateDistanceFlowField on a table that holds gridName and
\* a vector3 grid "ClosestBoundaryCell".  An iteration reads its own cell of
\* "ClosestBoundaryCell" and writes its own cell of gridName, so every read
\* sees the table the loop started with, also when the two names are one
FlowLoop(G, gridName) ==
    [G EXCEPT ![gridName].data =
        [h \in 0..(gridSize - 1) |->
            Minus(LoopNest(h + 1),
                  getVoxel(G, LoopNest(h + 1), "ClosestBoundaryCell"))]]

\* std::map::operator[] on a missing key: a value-initialised entry
EmptyEntry == [kind |-> "", data |-> <<>>]

\* getGrid(gridName): the table after grids_[gridName] has been evaluated
Looked(G, gridName) ==
    IF gridName \in DOMAIN G THEN G
    ELSE [n \in (DOMAIN G) \cup {gridName} |->
             IF n = gridName THEN EmptyEntry ELSE G[n]]

\* ------------------------------------------------------- DerivedGridBuilder
\* InRange with the upper bound excluded
InRange_Exclusive(v, startRange, endRange) ==
    v >= startRange /\ v < endRange

\* the test of the range filter on one cell
InRange(v, startRange, endRange) ==
    v >= startRange /\ v <= endRange

\* the loop of generateBoolGridFromIntGrid over R = [table, num_filled]
RECURSIVE BoolFromIntLoop(_, _, _, _, _, _)
BoolFromIntLoop(R, intGridName, boolGridName, startRange, endRange, n) ==
    IF n > gridSize THEN R
    ELSE LET v == getVoxel(R.table, LoopNest(n), intGridName)
         IN  IF InRange(v, startRange, endRange)
             THEN BoolFromIntLoop(
                      [table |-> setVoxel(R.table, LoopNest(n),
                                          boolGridName, TRUE),
                       num_filled |-> R.num_filled + 1],
                      intGridName, boolGridName, startRange, endRange, n + 1)
             ELSE BoolFromIntLoop(R, intGridName, boolGridName,
                                  startRange, endRange, n + 1)

\* ------------------------------------------------------------ construction
\* VoxelGrid(voxelSize, voxelGridDimensions): an all-false "Boundary"
Constructed(d) ==
    /\ dims = d
    /\ grids = [n \in {"Boundary"} |->
                   [kind |-> "bool",
                    data |-> [h \in 0..(gridSize - 1) |-> FALSE]]]
    /\ alive = TRUE
    /\ ncalls = 0
    /\ last = [op |-> "VoxelGrid"]

\* surface of the axis-aligned cube with corner lo and the given side
OnShell(lo, side, c) ==
    /\ \A a \in Axis : lo[a] <= c[a] /\ c[a] <= lo[a] + side - 1
    /\ \E a \in Axis : c[a] = lo[a] \/ c[a] = lo[a] + side - 1

InsideShell(lo, side, c) ==
    \A a \in Axis : lo[a] < c[a] /\ c[a] < lo[a] + side - 1

CubesInGrid ==
    {cube \in Coords \X (3..MaxDim) :
        \A a \in Axis : cube[1][a] + cube[2] <= dims[a]}

\* what the voxelizer may hand over: every fill of a small lattice; on a
\* larger one the empty fill, the full one, a single voxel at the centre,
\* a single voxel on an edge, and the cube shells
VoxelizerFills ==
    IF gridSize <= MaxCells
    THEN [0..(gridSize - 1) -> BOOLEAN]
    ELSE {[h \in 0..(gridSize - 1) |-> FALSE],
          [h \in 0..(gridSize - 1) |-> TRUE],
          [h \in 0..(gridSize - 1) |->
              LoopNest(h + 1) = <<(dims[1] - 1) \div 2, (dims[2] - 1) \div 2,
                                  (dims[3] - 1) \div 2>>],
          [h \in 0..(gridSize - 1) |->
              LoopNest(h + 1) = <<0, dims[2] - 1, (dims[3] - 1) \div 2>>]}
         \cup {[h \in 0..(gridSize - 1) |->
                   OnShell(cube[1], cube[2], LoopNest(h + 1))] :
               cube \in CubesInGrid}

\* VoxelGrid(meshData, renderAssetHandle, resolution): "Boundary" filled from
\* the voxelizer's volume
Voxelized(d) ==
    /\ dims = d
    /\ \E fill \in VoxelizerFills :
           grids = [n \in {"Boundary"} |-> [kind |-> "bool", data |-> fill]]
    /\ alive = TRUE
    /\ ncalls = 0
    /\ last = [op |-> "VoxelGrid"]

\* ----------------------------------------------------------------- actions
Budget == ncalls < MaxCalls /\ ncalls' = ncalls + 1
FilterBudget == ncalls < MaxFilters /\ ncalls' = ncalls + 1

HashVoxelIndex(coords) ==
    /\ alive
    /\ IF isValidIndex(coords)
       THEN /\ last' = [op |-> "hashVoxelIndex", coords |-> coords,
                        ret |-> hashVoxelIndex(coords)]
            /\ alive' = TRUE
       ELSE \* assert(isValidIndex(coords))
            /\ last' = [op |-> "hashVoxelIndex", coords |-> coords,
                        ret |-> -1]
            /\ alive' = FALSE
    /\ UNCHANGED <<dims, grids>>

ReverseHash(hash) ==
    /\ alive
    /\ IF hash < gridSize
       THEN /\ last' = [op |-> "reverseHash", hash |-> hash,
                        ret |-> reverseHash(hash)]
            /\ alive' = TRUE
       ELSE \* assert(hash < gridSize())
            /\ last' = [op |-> "reverseHash", hash |-> hash,
                        ret |-> <<-1, -1, -1>>]
            /\ alive' = FALSE
    /\ UNCHANGED <<dims, grids>>

\* setVoxel<bool>(index, "Boundary", value), for an edit that changes the cell
SetVoxel(index, value) ==
    /\ alive
    /\ HasGrid(grids, "Boundary", "bool")
    /\ getVoxel(grids, index, "Boundary") # value
    /\ grids' = setVoxel(grids, index, "Boundary", value)
    /\ last' = [op |-> "setVoxel"]
    /\ UNCHANGED <<dims, alive>>

generateInteriorExteriorVoxelGrid ==
    /\ alive
    /\ HasGrid(grids, "Boundary", "bool")
    /\ grids' = InteriorExteriorOf(grids)
    /\ last' = [op |-> "generateInteriorExteriorVoxelGrid"]
    /\ UNCHANGED <<dims, alive>>

\* Classified with the classification run on every call
Classified_Always(G) ==
    InteriorExteriorOf(G)

\* the table the SDF generators work on after their lazy check
Classified(G) ==
    IF "InteriorExterior" \in DOMAIN G THEN G ELSE InteriorExteriorOf(G)

\* the grids the SDF generators read hold the kind they are read as
ClassifiedReadable(G) ==
    IF "InteriorExterior" \in DOMAIN G
    THEN HasGrid(G, "InteriorExterior", "int")
    ELSE HasGrid(G, "Boundary", "bool")

generateManhattanDistanceSDF(gridName) ==
    /\ alive
    /\ ClassifiedReadable(grids)
    /\ grids' = ManhattanOf(Classified(grids), gridName)
    /\ last' = [op |-> "generateManhattanDistanceSDF", name |-> gridName,
                lazy |-> "InteriorExterior" \notin DOMAIN grids]
    /\ UNCHANGED <<dims, alive>>

generateEuclideanDistanceSDF(gridName) ==
    /\ alive
    /\ ClassifiedReadable(grids)
    /\ gridName \notin {"InteriorExterior", "ClosestBoundaryCell"}
    /\ grids' = EuclideanOf(Classified(grids), gridName)
    /\ last' = [op |-> "generateEuclideanDistanceSDF", name |-> gridName,
                lazy |-> "InteriorExterior" \notin DOMAIN grids]
    /\ UNCHANGED <<dims, alive>>

generateDistanceFlowField(gridName) ==
    /\ alive
    /\ LET added == addGrid(grids, "vector3", gridName)
       IN  IF HasGrid(added, "ClosestBoundaryCell", "vector3")
           THEN /\ grids' = FlowLoop(added, gridName)
                /\ alive' = TRUE
           ELSE \* getGrid<Vector3>("ClosestBoundaryCell") fails to build its
                \* view over a missing or shorter buffer
                /\ grids' = Looked(added, "ClosestBoundaryCell")
                /\ alive' = FALSE
    /\ last' = [op |-> "generateDistanceFlowField", name |-> gridName,
                after |-> last.op]
    /\ UNCHANGED dims

generateBoolGridFromIntGrid(intGridName, boolGridName, startRange, endRange) ==
    /\ alive
    /\ IF ~HasGrid(grids, intGridName, "int")
       THEN \* the asserts of lines 129-130
            /\ grids' = grids
            /\ alive' = FALSE
            /\ last' = [op |-> "generateBoolGridFromIntGrid",
                        src |-> intGridName, dst |-> boolGridName,
                        startRange |-> startRange, endRange |-> endRange,
                        ret |-> -1]
       ELSE IF intGridName = boolGridName
       THEN \* getGrid<int> fails to build its view over the new bool buffer
            /\ grids' = addGrid(grids, "bool", boolGridName)
            /\ alive' = FALSE
            /\ last' = [op |-> "generateBoolGridFromIntGrid",
                        src |-> intGridName, dst |-> boolGridName,
                        startRange |-> startRange, endRange |-> endRange,
                        ret |-> -1]
       ELSE LET R == BoolFromIntLoop(
                         [table |-> addGrid(grids, "bool", boolGridName),
                          num_filled |-> 0],
                         intGridName, boolGridName, startRange, endRange, 1)
            IN  /\ grids' = R.table
                /\ alive' = TRUE
                /\ last' = [op |-> "generateBoolGridFromIntGrid",
                            src |-> intGridName, dst |-> boolGridName,
                            startRange |-> startRange, endRange |-> endRange,
                            ret |-> R.num_filled]
    /\ UNCHANGED dims

\* ---------------------------------------------------------- store actions
\* the element kinds and the values a client writes into a cell of each
Kinds == {"bool", "int", "float", "vector3"}

ValuesOf(type) ==
    CASE type = "bool" -> BOOLEAN
      [] type = "int" -> {0, 7}
      [] type = "float" -> {<<0, 0>>, <<-1, 2>>}
      [] type = "vector3" -> {<<0, 0, 0>>, <<1, 0, 2>>}

AddGrid(type, gridName) ==
    /\ alive
    /\ grids' = addGrid(grids, type, gridName)
    /\ last' = [op |-> "addGrid", type |-> type, name |-> gridName]
    /\ UNCHANGED <<dims, alive>>

RemoveGrid(gridName) ==
    /\ alive
    /\ IF gridName \in DOMAIN grids
       THEN /\ grids' = removeGrid(grids, gridName)
            /\ alive' = TRUE
       ELSE \* assert(grids_.find(gridName) != grids_.end())
            /\ grids' = grids
            /\ alive' = FALSE
    /\ last' = [op |-> "removeGrid", name |-> gridName]
    /\ UNCHANGED dims

\* arrayCast<T>(grids_[gridName].second)[hash]
getVoxelByHash(G, hash, gridName) ==
    G[gridName].data[hash]

\* arrayCast<T>(grids_[gridName].second)[hash] = value
setVoxelByHash(G, hash, gridName, value) ==
    [G EXCEPT ![gridName].data[hash] = value]

\* setVoxel<T>(index, gridName, value) on a grid of kind T, for an edit that
\* changes the cell
SetVoxelIn(type, index, gridName, value) ==
    /\ alive
    /\ HasGrid(grids, gridName, type)
    /\ isValidIndex(index)
    /\ getVoxel(grids, index, gridName) # value
    /\ grids' = setVoxel(grids, index, gridName, value)
    /\ last' = [op |-> "setVoxel", name |-> gridName, index |-> index,
                value |-> value]
    /\ UNCHANGED <<dims, alive>>

\* setVoxelByHash<T>(hash, gridName, value) on a grid of kind T, for an edit
\* that changes the cell
SetVoxelByHash(type, hash, gridName, value) ==
    /\ alive
    /\ HasGrid(grids, gridName, type)
    /\ hash \in 0..(gridSize - 1)
    /\ getVoxelByHash(grids, hash, gridName) # value
    /\ grids' = setVoxelByHash(grids, hash, gridName, value)
    /\ last' = [op |-> "setVoxelByHash", name |-> gridName, hash |-> hash,
                value |-> value]
    /\ UNCHANGED <<dims, alive>>

\* the call before a read: a write of a cell with its arguments, any other
\* call by its name
Before ==
    IF last.op \in {"setVoxel", "setVoxelByHash"} THEN last
    ELSE [op |-> last.op]

\* getGrid<T>(gridName) on a grid of kind T or on a name not in the table:
\* grids_[gridName] is evaluated first, and the view over the empty buffer of
\* a name it had to insert cannot be built
GetGrid(type, gridName) ==
    /\ alive
    /\ gridName \in DOMAIN grids => HasGrid(grids, gridName, type)
    /\ grids' = Looked(grids, gridName)
    /\ alive' = (gridName \in DOMAIN grids)
    /\ last' = [op |-> "getGrid", name |-> gridName]
    /\ UNCHANGED dims

\* getVoxel<T>(index, gridName) on a grid of kind T or on a name not in the
\* table, where getGrid<T>(gridName) fails after grids_[gridName]
GetVoxel(type, index, gridName) ==
    /\ alive
    /\ isValidIndex(index)
    /\ grids' = Looked(grids, gridName)
    /\ IF gridName \in DOMAIN grids
       THEN /\ HasGrid(grids, gridName, type)
            /\ last' = [op |-> "getVoxel", name |-> gridName,
                        index |-> index,
                        ret |-> getVoxel(grids, index, gridName),
                        after |-> Before]
            /\ alive' = TRUE
       ELSE /\ last' = [op |-> "getVoxel", name |-> gridName,
                        index |-> index]
            /\ alive' = FALSE
    /\ UNCHANGED dims

\* getVoxelByHash<T>(hash, gridName) on a grid of kind T or on a name not in
\* the table, where element hash of the empty buffer that grids_[gridName]
\* inserted is read through a null pointer
GetVoxelByHash(type, hash, gridName) ==
    /\ alive
    /\ hash \in 0..(gridSize - 1)
    /\ grids' = Looked(grids, gridName)
    /\ IF gridName \in DOMAIN grids
       THEN /\ HasGrid(grids, gridName, type)
            /\ last' = [op |-> "getVoxelByHash", name |-> gridName,
                        hash |-> hash,
                        ret |-> getVoxelByHash(grids, hash, gridName),
                        after |-> Before]
            /\ alive' = TRUE
       ELSE /\ last' = [op |-> "getVoxelByHash", name |-> gridName,
                        hash |-> hash]
            /\ alive' = FALSE
    /\ UNCHANGED dims

\* the predicates handed to fillVoxelSetFrom*Grid as func
Predicates == {"always", "never", "isZero", "nonZero"}

func(pred, type, v) ==
    CASE pred = "always" -> TRUE
      [] pred = "never" -> FALSE
      [] pred = "isZero" -> v = ZeroOf(type)
      [] pred = "nonZero" -> v # ZeroOf(type)

\* push_front in place of push_back
push_front(voxelSet, c) == <<c>> \o voxelSet

\* voxelSet.push_back(Mn::Vector3i(i, j, k))
push_back(voxelSet, c) == Append(voxelSet, c)

\* the loop of fillVoxelSetFrom*Grid from its n-th iteration on
RECURSIVE FillLoop(_, _, _, _, _, _)
FillLoop(G, voxelSet, type, gridName, pred, n) ==
    IF n > gridSize THEN voxelSet
    ELSE IF func(pred, type, getVoxel(G, LoopNest(n), gridName))
         THEN FillLoop(G, push_back(voxelSet, LoopNest(n)),
                       type, gridName, pred, n + 1)
         ELSE FillLoop(G, voxelSet, type, gridName, pred, n + 1)

\* fillVoxelSetFromBoolGrid / IntGrid / FloatGrid / Vector3Grid, which differ
\* in the kind T they assert and read
fillVoxelSetFromGrid(type, voxelSet, gridName, pred) ==
    /\ alive
    /\ IF HasGrid(grids, gridName, type)
       THEN /\ last' = [op |-> "fillVoxelSetFromGrid", type |-> type,
                        name |-> gridName, pred |-> pred,
                        before |-> voxelSet,
                        voxelSet |-> FillLoop(grids, voxelSet, type,
                                              gridName, pred, 1)]
            /\ alive' = TRUE
       ELSE \* the two asserts on the name and its kind
            /\ last' = [op |-> "fillVoxelSetFromGrid", type |-> type,
                        name |-> gridName, pred |-> pred,
                        before |-> voxelSet, voxelSet |-> voxelSet]
            /\ alive' = FALSE
    /\ UNCHANGED <<dims, grids>>

\* ---------------------------------------------------------- specifications
\* IndexCodec on every lattice: the pure index functions applied to every
\* coordinate and hash, and to one of each that is out of range
\* the coordinates next to the lattice: some component is -1 or its dimension
OutOfRange ==
    {c \in (-1..dims[1]) \X (-1..dims[2]) \X (-1..dims[3]) :
        ~isValidIndex(c)}

NextHash ==
    \/ \E coords \in Coords \cup OutOfRange :
           HashVoxelIndex(coords) /\ UNCHANGED ncalls
    \/ \E hash \in 0..gridSize :
           ReverseHash(hash) /\ UNCHANGED ncalls

InitHash == \E d \in AllDims : Constructed(d)

SpecHash == InitHash /\ [][NextHash]_vars

\* the generators under their default names on a voxelized lattice
NextVox ==
    \/ generateInteriorExteriorVoxelGrid /\ UNCHANGED ncalls
    \/ generateManhattanDistanceSDF("MSignedDistanceField")
           /\ UNCHANGED ncalls
    \/ generateEuclideanDistanceSDF("ESignedDistanceField")
           /\ UNCHANGED ncalls
    \/ generateDistanceFlowField("DistanceFlowField") /\ UNCHANGED ncalls

\* the lattices voxelized: the small ones of any shape, the larger cubic ones
VoxDims ==
    {d \in AllDims :
        d[1] * d[2] * d[3] <= MaxCells \/ (d[1] = d[2] /\ d[2] = d[3])}

InitVox == \E d \in VoxDims : Voxelized(d)

SpecVox == InitVox /\ [][NextVox]_vars

\* a client that paints "Boundary" by hand and names the generated grids
\* itself, up to MaxCalls calls
ClientDims == {<<1, 2, 3>>, <<2, 2, 1>>}
ClientNames == {"Field", "InteriorExterior", "ClosestBoundaryCell"}

Next ==
    \/ Budget /\ \E index \in Coords, value \in BOOLEAN :
                     SetVoxel(index, value)
    \/ Budget /\ generateInteriorExteriorVoxelGrid
    \/ Budget /\ \E name \in ClientNames : generateManhattanDistanceSDF(name)
    \/ Budget /\ \E name \in ClientNames : generateEuclideanDistanceSDF(name)
    \/ Budget /\ \E name \in ClientNames : generateDistanceFlowField(name)

Init == \E d \in ClientDims : Constructed(d)

Spec == Init /\ [][Next]_vars

\* range filters over the integer grids of a voxelized lattice
DerivedDims == {<<1, 2, 3>>, <<2, 2, 1>>}
SourceNames == {"InteriorExterior", "MSignedDistanceField"}
TargetNames == {"Mask", "Boundary", "MSignedDistanceField"}
Ranges == {<<0, 0>>, <<1, INT_MAX>>, <<INT_MIN, 1>>, <<2, 1>>}

NextDerived ==
    \/ FilterBudget /\ generateInteriorExteriorVoxelGrid
    \/ FilterBudget /\ generateManhattanDistanceSDF("MSignedDistanceField")
    \/ FilterBudget /\ \E src \in SourceNames, dst \in TargetNames, r \in Ranges :
                           generateBoolGridFromIntGrid(src, dst, r[1], r[2])

InitDerived == \E d \in DerivedDims : Voxelized(d)

SpecDerived == InitDerived /\ [][NextDerived]_vars

\* a client of the typed grid store: grids added, removed, written, read and
\* collected under its own names, next to the generators under their default
\* names, up to MaxStoreCalls calls
StoreDims == {<<1, 2, 2>>, <<2, 2, 1>>}
StoreNames == {"Boundary", "Field"}
VoxelSets == {<<>>, <<<<0, 0, 0>>, <<0, 0, 0>>>>}
\* the variants of fillVoxelSetFrom*Grid called on a name: the one of its
\* kind, and the int one on any name
FillKinds(name) ==
    {"int"} \cup (IF name \in DOMAIN grids THEN {grids[name].kind} ELSE {})

StoreBudget == ncalls < MaxStoreCalls /\ ncalls' = ncalls + 1

NextStore ==
    \/ StoreBudget /\ \E type \in Kinds, name \in StoreNames :
                          AddGrid(type, name)
    \/ StoreBudget /\ \E name \in StoreNames : RemoveGrid(name)
    \/ StoreBudget /\ \E type \in Kinds, name \in StoreNames, index \in Coords :
                          \E value \in ValuesOf(type) :
                              SetVoxelIn(type, index, name, value)
    \/ StoreBudget /\ \E type \in Kinds, name \in StoreNames :
                          \E hash \in 0..(gridSize - 1), value \in ValuesOf(type) :
                              SetVoxelByHash(type, hash, name, value)
    \/ StoreBudget /\ \E type \in Kinds, name \in StoreNames, index \in Coords :
                          GetVoxel(type, index, name)
    \/ StoreBudget /\ \E type \in Kinds, name \in StoreNames :
                          \E hash \in 0..(gridSize - 1) :
                              GetVoxelByHash(type, hash, name)
    \/ StoreBudget /\ \E name \in DOMAIN grids \cup StoreNames :
                          \E type \in FillKinds(name), voxelSet \in VoxelSets :
                              \E pred \in Predicates :
                                  fillVoxelSetFromGrid(type, voxelSet, name, pred)
    \/ StoreBudget /\ HasGrid(grids, "InteriorExterior", "int")
                   /\ generateBoolGridFromIntGrid("InteriorExterior", "Field",
                                                  0, 0)
    \/ StoreBudget /\ generateInteriorExteriorVoxelGrid
    \/ StoreBudget /\ generateManhattanDistanceSDF("MSignedDistanceField")
    \/ StoreBudget /\ generateEuclideanDistanceSDF("ESignedDistanceField")
    \/ StoreBudget /\ HasGrid(grids, "ClosestBoundaryCell", "vector3")
                   /\ generateDistanceFlowField("DistanceFlowField")

InitStore == \E d \in StoreDims : Voxelized(d)

SpecStore == InitStore /\ [][NextStore]_vars

\* a client that keeps grids of its own, some under the names the
\* classification uses for its shadow grids, and classifies
FrameDims == {<<1, 2, 2>>}
FrameNames == {"Mask", "negXShadow", "posZShadow"}

NextFrame ==
    \/ StoreBudget /\ \E type \in Kinds, name \in FrameNames :
                          AddGrid(type, name)
    \/ StoreBudget /\ \E type \in Kinds, name \in FrameNames, index \in Coords :
                          \E value \in ValuesOf(type) :
                              SetVoxelIn(type, index, name, value)
    \/ StoreBudget /\ generateInteriorExteriorVoxelGrid
    \/ StoreBudget /\ generateManhattanDistanceSDF("MSignedDistanceField")

InitFrame == \E d \in FrameDims : Voxelized(d)

SpecFrame == InitFrame /\ [][NextFrame]_vars

\* ---- the two Manhattan sweeps, one cell of the loop body at a time, the
\* cells of the current slice taken in any order
SweepDims == {<<1, 2, 2>>, <<2, 2, 2>>, <<1, 1, 3>>, <<1, 3, 1>>}

\* the loop-nest positions of the cells of slice i
SliceCells(i) == (i * SliceSize + 1)..((i + 1) * SliceSize)

\* SliceReads with the k neighbour left out
SliceReads_WithoutK(n, delta) ==
    {ViewOffset(Step(LoopNest(n), a, delta)) + 1 :
        a \in {a \in {2} : isValidIndex(Step(LoopNest(n), a, delta))}}

\* the cells of its own slice that the loop body reads for the n-th cell:
\* sdfGrid[i][j + delta][k] and sdfGrid[i][j][k + delta], when on the lattice
SliceReads(n, delta) ==
    {ViewOffset(Step(LoopNest(n), a, delta)) + 1 :
        a \in {a \in {2, 3} : isValidIndex(Step(LoopNest(n), a, delta))}}

\* the loop body of the 1st sweep (delta = -1) or of the second sweep
\* (delta = 1, cells holding 0 skipped) on the n-th cell
SweepBody(D, n, delta) ==
    IF delta = 1 /\ D[n - 1] = 0 THEN D
    ELSE [D EXCEPT ![n - 1] = ManhattanCell(D, LoopNest(n), delta)]

\* the cell the loop nest itself takes next among those left in the slice
RasterNext(left, delta) ==
    IF delta = -1 THEN CHOOSE n \in left : \A m \in left : n <= m
    ELSE CHOOSE n \in left : \A m \in left : n >= m

\* lines 409-420: addGrid<int>(gridName) and the copy of "InteriorExterior"
SweepStart(gridName) ==
    /\ alive
    /\ last.op # "sweep"
    /\ HasGrid(grids, "InteriorExterior", "int")
    /\ grids' = [addGrid(grids, "int", gridName) EXCEPT ![gridName].data =
                     grids["InteriorExterior"].data]
    /\ last' = [op |-> "sweep", name |-> gridName, delta |-> -1, i |-> 0,
                done |-> {}, ordered |-> TRUE, raster |-> TRUE]
    /\ UNCHANGED <<dims, alive, ncalls>>

\* one run of the loop body, on a cell of the current slice not yet done;
\* the slice, the sweep and the call end with their last cell
SweepCell(n) ==
    /\ alive
    /\ last.op = "sweep"
    /\ n \in SliceCells(last.i) \ last.done
    /\ grids' = [grids EXCEPT ![last.name].data =
                     SweepBody(grids[last.name].data, n, last.delta)]
    /\ LET done == last.done \cup {n}
           ordered == last.ordered /\ SliceReads(n, last.delta) \subseteq last.done
           raster == last.raster /\
                     n = RasterNext(SliceCells(last.i) \ last.done, last.delta)
           track == [last EXCEPT !.ordered = ordered, !.raster = raster]
       IN  last' =
             IF done # SliceCells(last.i)
             THEN [track EXCEPT !.done = done]
             ELSE IF last.delta = -1 /\ last.i + 1 < dims[1]
             THEN [track EXCEPT !.done = {}, !.i = last.i + 1]
             ELSE IF last.delta = -1
             THEN [track EXCEPT !.done = {}, !.i = dims[1] - 1, !.delta = 1]
             ELSE IF last.i > 0
             THEN [track EXCEPT !.done = {}, !.i = last.i - 1]
             ELSE [track EXCEPT !.done = {}, !.op = "swept"]
    /\ UNCHANGED <<dims, alive, ncalls>>

NextSweep ==
    \/ last.op # "sweep" /\ generateInteriorExteriorVoxelGrid
           /\ UNCHANGED ncalls
    \/ SweepStart("MSignedDistanceField")
    \/ \E n \in 1..gridSize : SweepCell(n)

InitSweep == \E d \in SweepDims : Voxelized(d)

SpecSweep == InitSweep /\ [][NextSweep]_vars

\* ---- the sweeps on labels a client wrote: addGrid<int>("InteriorExterior")
\* and setVoxel with the three values the classification uses
LabelDims == {<<1, 2, 2>>, <<1, 1, 3>>}
LabelValues == {0, INT_MAX, INT_MIN}

NextLabels ==
    \/ last.op # "sweep" /\ AddGrid("int", "InteriorExterior")
           /\ UNCHANGED ncalls
    \/ last.op # "sweep" /\ \E index \in Coords, value \in LabelValues :
           SetVoxelIn("int", index, "InteriorExterior", value)
           /\ UNCHANGED ncalls
    \/ SweepStart("MSignedDistanceField")
    \/ \E n \in 1..gridSize : SweepCell(n)

InitLabels == \E d \in LabelDims : Constructed(d)

SpecLabels == InitLabels /\ [][NextLabels]_vars

\* ---- a client that reads grids by name, names not in the table included
ReadNames == {"Boundary", "Field"}

NextRead ==
    \/ StoreBudget /\ \E type \in Kinds, name \in ReadNames :
                          AddGrid(type, name)
    \/ StoreBudget /\ \E name \in ReadNames : RemoveGrid(name)
    \/ StoreBudget /\ \E type \in Kinds, name \in ReadNames :
                          GetGrid(type, name)
    \/ StoreBudget /\ \E type \in Kinds, name \in ReadNames, index \in Coords :
                          GetVoxel(type, index, name)
    \/ StoreBudget /\ \E type \in Kinds, name \in ReadNames :
                          \E hash \in 0..(gridSize - 1) :
                              GetVoxelByHash(type, hash, name)

InitRead == \E d \in StoreDims : Voxelized(d)

SpecRead == InitRead /\ [][NextRead]_vars

\* ---- a client that writes and reads cells by coordinate and by hash
NextAccess ==
    \/ StoreBudget /\ \E type \in Kinds, name \in StoreNames :
                          AddGrid(type, name)
    \/ StoreBudget /\ \E type \in Kinds, name \in StoreNames, index \in Coords :
                          \E value \in ValuesOf(type) :
                              SetVoxelIn(type, index, name, value)
    \/ StoreBudget /\ \E type \in Kinds, name \in StoreNames :
                          \E hash \in 0..(gridSize - 1), value \in ValuesOf(type) :
                              SetVoxelByHash(type, hash, name, value)
    \/ StoreBudget /\ \E type \in Kinds, name \in StoreNames, index \in Coords :
                          GetVoxel(type, index, name)
    \/ StoreBudget /\ \E type \in Kinds, name \in StoreNames :
                          \E hash \in 0..(gridSize - 1) :
                              GetVoxelByHash(type, hash, name)

InitAccess == \E d \in StoreDims : Voxelized(d)

SpecAccess == InitAccess /\ [][NextAccess]_vars

\* ------------------------------------------------------------------ claims
Data(gridName) == grids[gridName].data
Cells == 0..(gridSize - 1)
CoordOf(h) == LoopNest(h + 1)

\* C1: for every valid coordinate c, reverseHash(hashVoxelIndex(c)) is c
\* itself, component for component: whenever reverseHash returns, its result
\* is the coordinate whose hash it was given.
C1_UnhashOfHash ==
    (last.op = "reverseHash" /\ alive) =>
        \A c \in Coords : hashVoxelIndex(c) = last.hash => last.ret = c

\* C2: for every index i below the cell count, reverseHash(i) is a valid
\* coordinate and hashVoxelIndex of it is i again.
C2_HashOfUnhash ==
    (last.op = "reverseHash" /\ alive) =>
        /\ isValidIndex(last.ret)
        /\ hashVoxelIndex(last.ret) = last.hash

\* "Boundary" is exactly the surface of the cube
IsShell(cube) ==
    \A h \in Cells : Data("Boundary")[h] = OnShell(cube[1], cube[2], CoordOf(h))

\* C3: when "Boundary" is a hollow cube shell anywhere in the lattice, the
\* classification labels every cell strictly inside the cube INT_MIN and
\* every non-boundary cell outside it INT_MAX.
C3_ShellClassified ==
    (last.op = "generateInteriorExteriorVoxelGrid") =>
        \A cube \in CubesInGrid :
            IsShell(cube) =>
                \A h \in Cells :
                    /\ InsideShell(cube[1], cube[2], CoordOf(h))
                           => Data("InteriorExterior")[h] = INT_MIN
                    /\ (~Data("Boundary")[h]
                            /\ ~InsideShell(cube[1], cube[2], CoordOf(h)))
                           => Data("InteriorExterior")[h] = INT_MAX

ManhattanDist(a, b) ==
    AbsInt(a[1] - b[1]) + AbsInt(a[2] - b[2]) + AbsInt(a[3] - b[3])

\* the cells of "InteriorExterior" holding 0
ZeroCells == {h \in Cells : Data("InteriorExterior")[h] = 0}

\* C4: after generateManhattanDistanceSDF(name), if some cell of
\* "InteriorExterior" is 0, the magnitude of every cell of name is its
\* smallest Manhattan distance to a cell of "InteriorExterior" holding 0.
C4_ManhattanExact ==
    (last.op = "generateManhattanDistanceSDF" /\ ZeroCells # {}) =>
        \A h \in Cells :
            /\ \E b \in ZeroCells :
                   AbsInt(Data(last.name)[h]) =
                       ManhattanDist(CoordOf(h), CoordOf(b))
            /\ \A b \in ZeroCells :
                   AbsInt(Data(last.name)[h]) <=
                       ManhattanDist(CoordOf(h), CoordOf(b))

\* a single boundary voxel at the centre of the 3x3x3 lattice: the centre is
\* 0, a face neighbour has magnitude 1 and an edge-diagonal neighbour 2
C4_Witness ==
    /\ last.op = "generateManhattanDistanceSDF"
    /\ dims = <<3, 3, 3>>
    /\ ZeroCells = {ViewOffset(<<1, 1, 1>>)}
    /\ Data(last.name)[ViewOffset(<<1, 1, 1>>)] = 0
    /\ AbsInt(Data(last.name)[ViewOffset(<<0, 1, 1>>)]) = 1
    /\ AbsInt(Data(last.name)[ViewOffset(<<1, 2, 2>>)]) = 2

BoundaryCells == {h \in Cells : Data("Boundary")[h]}

\* C5: after generateEuclideanDistanceSDF(name) on a "Boundary" with at least
\* one boundary cell, "ClosestBoundaryCell" of every cell is a boundary cell
\* at the smallest Euclidean distance, and the magnitude of name is that
\* distance.
C5_EuclideanExact ==
    (last.op = "generateEuclideanDistanceSDF" /\ BoundaryCells # {}) =>
        \A h \in Cells :
            /\ \E b \in BoundaryCells :
                   Data("ClosestBoundaryCell")[h] = CoordOf(b)
            /\ \A b \in BoundaryCells :
                   SqDist(Data("ClosestBoundaryCell")[h], CoordOf(h)) <=
                       SqDist(CoordOf(b), CoordOf(h))
            /\ \A b \in BoundaryCells :
                   Data(last.name)[h][2] <= SqDist(CoordOf(b), CoordOf(h))

\* C7: when generateInteriorExteriorVoxelGrid returns, a cell of
\* "InteriorExterior" is 0 exactly where "Boundary" is true and every other
\* cell is INT_MAX or INT_MIN.
C7_BoundaryIsZero ==
    (last.op = "generateInteriorExteriorVoxelGrid") =>
        \A h \in Cells :
            /\ (Data("InteriorExterior")[h] = 0) <=> Data("Boundary")[h]
            /\ Data("InteriorExterior")[h] \in {0, INT_MAX, INT_MIN}

\* a classification that produced all three labels
C7_Witness ==
    /\ last.op = "generateInteriorExteriorVoxelGrid"
    /\ \E h \in Cells : Data("Boundary")[h] /\ Data("InteriorExterior")[h] = 0
    /\ \E h \in Cells : Data("InteriorExterior")[h] = INT_MAX
    /\ \E h \in Cells : Data("InteriorExterior")[h] = INT_MIN

SDFOps == {"generateManhattanDistanceSDF", "generateEuclideanDistanceSDF"}

\* C6: generateDistanceFlowField(name) called right after
\* generateEuclideanDistanceSDF leaves name[c] = c - ClosestBoundaryCell[c]
\* in every cell, and the zero vector in every cell where "Boundary" is true.
C6_FlowField ==
    [][(last.op = "generateEuclideanDistanceSDF"
            /\ last'.op = "generateDistanceFlowField" /\ alive') =>
          \A h \in Cells :
              /\ grids'[last'.name].data[h] =
                     <<CoordOf(h)[1] - Data("ClosestBoundaryCell")[h][1],
                       CoordOf(h)[2] - Data("ClosestBoundaryCell")[h][2],
                       CoordOf(h)[3] - Data("ClosestBoundaryCell")[h][3]>>
              /\ Data("Boundary")[h] =>
                     grids'[last'.name].data[h] = <<0, 0, 0>>]_vars

\* C6 as amended: for a name other than "ClosestBoundaryCell" the field is
\* c - ClosestBoundaryCell[c] in every cell, and the zero vector in every
\* cell that "InteriorExterior" labels 0.
C6_FlowFieldOfLabels ==
    [][(last.op = "generateEuclideanDistanceSDF"
            /\ last'.op = "generateDistanceFlowField" /\ alive'
            /\ last'.name # "ClosestBoundaryCell") =>
          \A h \in Cells :
              /\ grids'[last'.name].data[h] =
                     <<CoordOf(h)[1] - Data("ClosestBoundaryCell")[h][1],
                       CoordOf(h)[2] - Data("ClosestBoundaryCell")[h][2],
                       CoordOf(h)[3] - Data("ClosestBoundaryCell")[h][3]>>
              /\ Data("InteriorExterior")[h] = 0 =>
                     grids'[last'.name].data[h] = <<0, 0, 0>>]_vars

\* a flow field generated right after the Euclidean SDF, on a lattice with a
\* boundary cell: zero there and non-zero elsewhere
C6_Witness ==
    /\ last.op = "generateDistanceFlowField"
    /\ last.after = "generateEuclideanDistanceSDF"
    /\ alive
    /\ last.name = "Field"
    /\ \E h \in Cells : Data("Boundary")[h] /\ Data("Field")[h] = <<0, 0, 0>>
    /\ \E h \in Cells : ~Data("Boundary")[h] /\ Data("Field")[h] # <<0, 0, 0>>

\* C8: for every destination name the SDF generators classify exactly when
\* "InteriorExterior" is absent, and on return "InteriorExterior" holds what
\* the classification produces (if it was absent) or what it held before.
C8_LazyClassification ==
    [][(last'.op \in SDFOps) =>
          /\ last'.lazy <=> ("InteriorExterior" \notin DOMAIN grids)
          /\ "InteriorExterior" \in DOMAIN grids'
          /\ grids'["InteriorExterior"] =
                 IF "InteriorExterior" \in DOMAIN grids
                 THEN grids["InteriorExterior"]
                 ELSE InteriorExteriorOf(grids)["InteriorExterior"]]_vars

\* C8 as amended: the same for every destination name other than
\* "InteriorExterior".
C8_LazyClassificationOtherName ==
    [][(last'.op \in SDFOps /\ last'.name # "InteriorExterior") =>
          /\ last'.lazy <=> ("InteriorExterior" \notin DOMAIN grids)
          /\ "InteriorExterior" \in DOMAIN grids'
          /\ grids'["InteriorExterior"] =
                 IF "InteriorExterior" \in DOMAIN grids
                 THEN grids["InteriorExterior"]
                 ELSE InteriorExteriorOf(grids)["InteriorExterior"]]_vars

\* an SDF generated under another name from a classification that was
\* already there and no longer matches "Boundary"
C8_Witness ==
    /\ last.op \in SDFOps
    /\ last.name = "Field"
    /\ ~last.lazy
    /\ HasGrid(grids, "InteriorExterior", "int")
    /\ \E h \in Cells :
           Data("Boundary")[h] /\ Data("InteriorExterior")[h] # 0

\* C9: generateDistanceFlowField(name) without a grid "ClosestBoundaryCell"
\* fails and leaves the table as it was.
C9_FlowFieldPrecondition ==
    [][(last'.op = "generateDistanceFlowField"
            /\ "ClosestBoundaryCell" \notin DOMAIN grids) =>
          (~alive' /\ grids' = grids)]_vars

\* C10: for an int grid src and dst # src the range filter succeeds, leaves
\* dst a bool grid with dst[c] = (lo <= src[c] <= hi) in every cell, and
\* returns the number of true cells of dst (0 when lo > hi).
C10_RangeFilter ==
    [][(last'.op = "generateBoolGridFromIntGrid"
            /\ HasGrid(grids, last'.src, "int")
            /\ last'.src # last'.dst) =>
          /\ alive'
          /\ HasGrid(grids', last'.dst, "bool")
          /\ \A h \in Cells :
                 grids'[last'.dst].data[h] =
                     (last'.startRange <= grids[last'.src].data[h]
                          /\ grids[last'.src].data[h] <= last'.endRange)
          /\ last'.ret =
                 Cardinality({h \in Cells : grids'[last'.dst].data[h]})
          /\ last'.startRange > last'.endRange => last'.ret = 0]_vars

\* a filter that overwrote "Boundary" with some but not all cells true, and
\* one over an empty range
C10_Witness ==
    /\ last.op = "generateBoolGridFromIntGrid"
    /\ alive
    /\ last.dst = "Boundary"
    /\ last.ret > 0
    /\ last.ret < gridSize
    /\ last.endRange = INT_MAX

\* C11: fillVoxelSetFrom*Grid(voxelSet, src, pred) leaves voxelSet equal to
\* what it held before followed by exactly the coordinates c with
\* pred(src[c]) true, in strictly ascending hashVoxelIndex order (so each
\* once); with the always-true predicate and an empty list that is every
\* coordinate of the lattice.
C11_FillAppends ==
    (last.op = "fillVoxelSetFromGrid" /\ alive) =>
        LET n == Len(last.before)
            out == last.voxelSet
            m == Len(out) - n
        IN  /\ m >= 0
            /\ SubSeq(out, 1, n) = last.before
            /\ \A i \in 1..m : out[n + i] \in Coords
            /\ \A c \in Coords :
                   func(last.pred, last.type,
                        grids[last.name].data[hashVoxelIndex(c)])
                       <=> \E i \in 1..m : out[n + i] = c
            /\ \A i, j \in 1..m :
                   i < j => hashVoxelIndex(out[n + i]) <
                                hashVoxelIndex(out[n + j])
            /\ (last.pred = "always" /\ n = 0) => m = gridSize

\* a collection that appended some but not all coordinates to a list that
\* was not empty
C11_Witness ==
    /\ last.op = "fillVoxelSetFromGrid"
    /\ alive
    /\ last.pred = "nonZero"
    /\ last.before # <<>>
    /\ Len(last.voxelSet) - Len(last.before) >= 2
    /\ Len(last.voxelSet) - Len(last.before) < gridSize

\* C12: after addGrid<T>(name), whether or not name was there before, the
\* table holds name with kind T and the zero of T in every cell, and every
\* other grid keeps its kind and contents.
C12_AddGridZeroed ==
    [][(last'.op = "addGrid") =>
          /\ alive'
          /\ DOMAIN grids' = DOMAIN grids \cup {last'.name}
          /\ grids'[last'.name].kind = last'.type
          /\ DOMAIN grids'[last'.name].data = 0..(dims[1] * dims[2] * dims[3] - 1)
          /\ \A h \in DOMAIN grids'[last'.name].data :
                 grids'[last'.name].data[h] =
                     (CASE last'.type = "bool" -> FALSE
                        [] last'.type = "int" -> 0
                        [] last'.type = "float" -> <<0, 0>>
                        [] last'.type = "vector3" -> <<0, 0, 0>>)
          /\ \A n \in DOMAIN grids \ {last'.name} : grids'[n] = grids[n]]_vars

\* "Boundary", which held a true cell, replaced by a vector3 grid next to a
\* classification that stays
C12_Witness ==
    /\ last.op = "addGrid"
    /\ last.name = "Boundary"
    /\ last.type = "vector3"
    /\ HasGrid(grids, "Boundary", "vector3")
    /\ HasGrid(grids, "InteriorExterior", "int")
    /\ \E h \in Cells : Data("InteriorExterior")[h] = 0

\* C13: removeGrid(name) on a name that is there removes that entry and
\* leaves every other grid as it was; on a name that is not there it fails
\* and leaves the table as it was.
C13_RemoveGridExact ==
    [][(last'.op = "removeGrid") =>
          IF last'.name \in DOMAIN grids
          THEN /\ alive'
               /\ DOMAIN grids' = DOMAIN grids \ {last'.name}
               /\ \A n \in DOMAIN grids' : grids'[n] = grids[n]
          ELSE /\ ~alive'
               /\ grids' = grids]_vars

\* "Boundary" removed from a table in which another grid remains
C13_Witness ==
    /\ last.op = "removeGrid"
    /\ alive
    /\ last.name = "Boundary"
    /\ "Boundary" \notin DOMAIN grids
    /\ DOMAIN grids # {}

\* the values a cell of each kind can hold
CellValues(type) ==
    CASE type = "bool" -> BOOLEAN
      [] type = "int" -> INT_MIN..INT_MAX
      [] type = "float" -> {-1, 0, 1} \X Nat
      [] type = "vector3" -> Int \X Int \X Int

\* C14: in every state reached by construction, addGrid, removeGrid,
\* setVoxel / getVoxel by coordinate or by hash and the generators, called
\* within their preconditions, every entry of the table has exactly
\* dimX * dimY * dimZ elements of its recorded kind.
C14_EveryGridFullSize ==
    alive =>
        \A n \in DOMAIN grids :
            /\ grids[n].kind \in Kinds
            /\ DOMAIN grids[n].data = 0..(dims[1] * dims[2] * dims[3] - 1)
            /\ \A h \in DOMAIN grids[n].data :
                   grids[n].data[h] \in CellValues(grids[n].kind)

\* a table holding grids of all four kinds
C14_Witness ==
    /\ alive
    /\ \A type \in Kinds : \E n \in DOMAIN grids : grids[n].kind = type

\* C15: hashVoxelIndex(c) is z + y * dimZ + x * dimZ * dimY for a valid
\* coordinate, no other valid coordinate has the same hash, the hashes of
\* the valid coordinates are exactly 0 .. dimX * dimY * dimZ - 1, and for a
\* coordinate with a component negative or not below its dimension the call
\* fails.
C15_HashFormula ==
    (last.op = "hashVoxelIndex") =>
        IF \A a \in Axis : 0 <= last.coords[a] /\ last.coords[a] < dims[a]
        THEN /\ alive
             /\ last.ret = last.coords[3] + last.coords[2] * dims[3]
                               + last.coords[1] * dims[3] * dims[2]
             /\ \A c \in Coords :
                    hashVoxelIndex(c) = last.ret => c = last.coords
             /\ {hashVoxelIndex(c) : c \in Coords} =
                    0..(dims[1] * dims[2] * dims[3] - 1)
        ELSE ~alive

\* the last coordinate of the 2x3x4 lattice hashed to 23
C15_Witness ==
    /\ last.op = "hashVoxelIndex"
    /\ alive
    /\ dims = <<2, 3, 4>>
    /\ last.coords = <<1, 2, 3>>
    /\ last.ret = 23

\* C16: on a lattice whose "Boundary" is false in every cell,
\* generateInteriorExteriorVoxelGrid labels every cell INT_MAX.
C16_AllFalseExterior ==
    (last.op = "generateInteriorExteriorVoxelGrid" /\ BoundaryCells = {}) =>
        \A h \in Cells : Data("InteriorExterior")[h] = INT_MAX

\* the classification of an empty 3x3x3 lattice
C16_Witness ==
    /\ last.op = "generateInteriorExteriorVoxelGrid"
    /\ dims = <<3, 3, 3>>
    /\ BoundaryCells = {}
    /\ Data("InteriorExterior")[ViewOffset(<<1, 1, 1>>)] = INT_MAX

C18_ShadowsRemoved ==
    (last.op = "generateInteriorExteriorVoxelGrid"
         \/ (last.op \in SDFOps /\ last.lazy)) =>
        {"negXShadow", "posXShadow", "negYShadow", "posYShadow",
         "negZShadow", "posZShadow"} \cap DOMAIN grids = {}

\* a classification of a lattice with boundary cells that left "Boundary"
\* and "InteriorExterior" and nothing else
C18_Witness ==
    /\ last.op = "generateInteriorExteriorVoxelGrid"
    /\ BoundaryCells # {}
    /\ BoundaryCells # Cells
    /\ DOMAIN grids = {"Boundary", "InteriorExterior"}

\* a boundary cell lies on the ray through c along axis a, at a smaller
\* (dir = -1) or larger (dir = 1) coordinate, first and last cell included
OnRay(c, a, dir) ==
    \E b \in BoundaryCells :
        /\ \A o \in Axis \ {a} : CoordOf(b)[o] = c[o]
        /\ (CoordOf(b)[a] - c[a]) * dir > 0

\* C19: the label of every non-boundary cell c is the reference ray vote:
\* INT_MAX iff c is clear towards both ends of some axis or clear towards at
\* least one end of every axis, INT_MIN otherwise.
C19_ReferenceVote ==
    (last.op = "generateInteriorExteriorVoxelGrid") =>
        \A h \in Cells \ BoundaryCells :
            Data("InteriorExterior")[h] =
                IF \/ \E a \in Axis : ~OnRay(CoordOf(h), a, -1)
                                          /\ ~OnRay(CoordOf(h), a, 1)
                   \/ \A a \in Axis : ~OnRay(CoordOf(h), a, -1)
                                          \/ ~OnRay(CoordOf(h), a, 1)
                THEN INT_MAX
                ELSE INT_MIN

\* C20: when generateManhattanDistanceSDF(name) returns, after any setVoxel
\* edits of "Boundary" and calls of the classification and of the Manhattan
\* generator, the cells of name holding 0 are exactly the cells where
\* "Boundary" is true.
C20_ZeroIsBoundary ==
    (last.op = "generateManhattanDistanceSDF") =>
        {h \in Cells : Data(last.name)[h] = 0} = BoundaryCells

\* C20 as amended: for a name other than "InteriorExterior", the cells of
\* name holding 0 are the cells "InteriorExterior" labelled 0 when the call
\* was made, or the cells where "Boundary" is true when "InteriorExterior"
\* was absent.
C20_ZeroIsLabelledZero ==
    [][(last'.op = "generateManhattanDistanceSDF"
            /\ last'.name # "InteriorExterior") =>
          {h \in Cells : grids'[last'.name].data[h] = 0} =
              IF "InteriorExterior" \in DOMAIN grids
              THEN {h \in Cells : grids["InteriorExterior"].data[h] = 0}
              ELSE {h \in Cells : grids["Boundary"].data[h]}]_vars

\* a Manhattan SDF generated from labels older than the last edit of
\* "Boundary": its zero cells are not the boundary cells
C20_Witness ==
    /\ last.op = "generateManhattanDistanceSDF"
    /\ last.name = "Field"
    /\ ~last.lazy
    /\ \E h \in Cells : Data("Field")[h] = 0
    /\ \E h \in Cells : Data("Boundary")[h] /\ Data("Field")[h] # 0

\* C21: generateInteriorExteriorVoxelGrid changes nothing but the grid
\* "InteriorExterior": every grid that was in the table under another name,
\* the names of the shadow grids included, is still there with the same kind
\* and contents.
C21_ClassificationFrame ==
    [][(last'.op = "generateInteriorExteriorVoxelGrid") =>
          /\ DOMAIN grids' = DOMAIN grids \cup {"InteriorExterior"}
          /\ \A n \in DOMAIN grids \ {"InteriorExterior"} :
                 grids'[n] = grids[n]]_vars

\* C22 as stated: the cells of one x-slice taken in any order, slices in
\* sweep order and the 1st sweep before the second, give the grid the
\* sequential loop nest gives.
C22_AnyOrderInSlice ==
    (last.op = "swept") =>
        Data(last.name) = ManhattanOf(grids, last.name)[last.name].data

\* C22, amended: the cells of one x-slice taken in any order in which a cell
\* comes after the cells of its slice that its loop body reads give the grid
\* the sequential loop nest gives.
C22_OrderedInSlice ==
    (last.op = "swept" /\ last.ordered) =>
        Data(last.name) = ManhattanOf(grids, last.name)[last.name].data

C22_Witness ==
    /\ last.op = "swept"
    /\ last.ordered
    /\ ~last.raster
    /\ \E h \in Cells : AbsInt(Data(last.name)[h]) = 2

\* C23: after generateManhattanDistanceSDF(name) with a name other than
\* "InteriorExterior", a cell of name is 0 exactly where "InteriorExterior"
\* is 0 and has the sign of "InteriorExterior" everywhere else.
C23_ManhattanSign ==
    (last.op = "generateManhattanDistanceSDF"
         /\ last.name # "InteriorExterior") =>
        \A h \in Cells :
            Sign(Data(last.name)[h]) = Sign(Data("InteriorExterior")[h])

C23_Witness ==
    /\ last.op = "generateManhattanDistanceSDF"
    /\ last.name # "InteriorExterior"
    /\ \E h \in Cells : Data(last.name)[h] = 0
    /\ \E h \in Cells : Data(last.name)[h] < 0
    /\ \E h \in Cells : Data(last.name)[h] > 0

\* the operands of abs in the loop body for the n-th cell: the clamped
\* neighbours on the lattice and the clamped cell itself
AbsOperands(D, n, delta) ==
    {Max2(D[ViewOffset(Step(LoopNest(n), a, delta))], -2147483646) :
        a \in {a \in Axis : isValidIndex(Step(LoopNest(n), a, delta))}}
    \cup {Max2(D[n - 1], -2147483647)}

\* the operand of closest + 1 in the loop body for the n-th cell
IncOperand(D, n, delta) ==
    Lowered(ClosestOf(NeighbourMagnitude(D, LoopNest(n), 1, delta),
                      NeighbourMagnitude(D, LoopNest(n), 2, delta),
                      NeighbourMagnitude(D, LoopNest(n), 3, delta)))

\* C24: on labels in {0, INT_MAX, INT_MIN}, a grid without a zero cell
\* included, no arithmetic step of either sweep leaves the 32-bit range (abs
\* never gets INT_MIN, closest + 1 never gets INT_MAX, the product of sign
\* and magnitude has a magnitude within 0..INT_MAX), and every value a sweep
\* stores has a magnitude within 0..2147483647.
C24_SweepsInRange ==
    /\ (last.op = "sweep") =>
          \A n \in SliceCells(last.i) \ last.done :
              (last.delta = 1 /\ Data(last.name)[n - 1] = 0) \/
              /\ INT_MIN \notin AbsOperands(Data(last.name), n, last.delta)
              /\ IncOperand(Data(last.name), n, last.delta) # INT_MAX
              /\ SweepBody(Data(last.name), n, last.delta)[n - 1] # INT_MIN
    /\ (last.op = "swept") =>
          \A h \in Cells : Data(last.name)[h] # INT_MIN

C24_Witness ==
    /\ last.op = "swept"
    /\ \A h \in Cells : Data("InteriorExterior")[h] \in {INT_MAX, INT_MIN}
    /\ \E h \in Cells : Data(last.name)[h] = -INT_MAX
    /\ \E h \in Cells : Data(last.name)[h] = INT_MAX

\* sign and square of the float <<s, q>>, the number s * sqrt(q)
FloatSign(v) == IF v[2] = 0 THEN 0 ELSE v[1]
FloatSquare(v) == v[1] * v[1] * v[2]

C27_ReadsKeepTable ==
    [][(last'.op \in {"getVoxel", "getVoxelByHash", "getGrid"}) =>
          grids' = grids]_vars

\* a read by hash that follows setVoxel(c, name, v) and addresses
\* hashVoxelIndex(c) of name returns v, and a read by coordinate c that
\* follows setVoxelByHash(hashVoxelIndex(c), name, v) returns v
C28_ReadBack ==
    /\ (alive /\ last.op = "getVoxelByHash" /\ last.after.op = "setVoxel"
          /\ last.after.name = last.name
          /\ last.hash = hashVoxelIndex(last.after.index)) =>
           last.ret = last.after.value
    /\ (alive /\ last.op = "getVoxel" /\ last.after.op = "setVoxelByHash"
          /\ last.after.name = last.name
          /\ last.after.hash = hashVoxelIndex(last.index)) =>
           last.ret = last.after.value

\* the cell a write addresses, as a hash
C28_Written ==
    IF last'.op = "setVoxel" THEN hashVoxelIndex(last'.index) ELSE last'.hash

\* a write by coordinate or by hash keeps every other cell of every grid
C28_Frame ==
    (last'.op \in {"setVoxel", "setVoxelByHash"}) =>
        /\ DOMAIN grids' = DOMAIN grids
        /\ \A n \in DOMAIN grids :
               /\ grids'[n].kind = grids[n].kind
               /\ \A h \in Cells :
                      (n = last'.name /\ h = C28_Written) \/
                      grids'[n].data[h] = grids[n].data[h]

\* C28: access by coordinate and access by hash address the same cell: after
\* setVoxel(c, name, v), getVoxelByHash(hashVoxelIndex(c), name) returns v;
\* after setVoxelByHash(hashVoxelIndex(c), name, v), getVoxel(c, name)
\* returns v; every other cell of every grid is unchanged by the write.
C28_SameCell == [](C28_ReadBack) /\ [][C28_Frame]_vars

C28_Witness ==
    /\ alive
    /\ last.op = "getVoxel"
    /\ last.after.op = "setVoxelByHash"
    /\ last.after.name = last.name
    /\ last.after.hash = hashVoxelIndex(last.index)
    /\ last.index[1] + last.index[2] + last.index[3] >= 2

====
